---- MODULE Spec2Model ----
(***************************************************************************)
(* Model of the SuiteCRM client: the case converter (caseConverter.ts),    *)
(* the module / relationship builder (SuiteCrmModule.ts), the type-level   *)
(* key projection (suitecrm.ts), the flattening of get_entry_list          *)
(* responses, the requests, the deep converters and the session handling   *)
(* of SuiteCrmService.ts.                                                  *)
(*                                                                         *)
(* A JavaScript string is a sequence of one-character strings, so that the *)
(* regular-expression replacements of the converters are computed          *)
(* character by character.                                                 *)
(***************************************************************************)
EXTENDS Integers, Sequences, FiniteSets, TLC

VARIABLES
    \* ---- case converter ----
    text,          \* the string the next conversion is applied to
    trail,         \* the conversions made so far: <<[fn, arg, ret], ...>>
    \* ---- module / relationship builder ----
    modules,       \* heap of SuiteCrmModule objects: <<[name, links], ...>>
    linkObjs,      \* heap of the plain objects held in .links: key -> relationship id
    rels,          \* heap of SuiteCrmRelationship objects: <<[linkName, relatedModule], ...>>
    held,          \* per caller: the descriptor the caller currently works with
    last,          \* the last builder call: its arguments, the state before, its outcome
    \* ---- flattening ----
    rawResponse,   \* the EntryListResponse the remote endpoint returns
    options,       \* the options getEntryList was called with
    parsedEntries, \* what getEntryList returned
    writes,        \* per output index, the assignments flattenEntryList made, in order
    phase,         \* "idle": response being assembled, "done": getEntryList returned
    \* ---- request building ----
    given,         \* what getEntryList / setEntry was called with
    sent,          \* the method and the arguments handed to call()
    \* ---- deep converters ----
    deepObj,       \* the object a deep converter is applied to
    converted,     \* the conversion made: [fn, ret]
    \* ---- session and calls ----
    token,         \* this.token: 0 is null, n > 0 the n-th token the endpoint issued
    userInfo,      \* this.userInfo: FALSE is null
    tasks,         \* per task: the operation in progress and where it is suspended
    issued,        \* tokens the endpoint has issued to this instance
    fresh,         \* no authentication failure and no clearToken since the token was set
    started,       \* operations started so far
    clears         \* clearToken() calls made by callers so far

caseVars    == <<text, trail>>
moduleVars  == <<modules, linkObjs, rels, held, last>>
flattenVars == <<rawResponse, options, parsedEntries, writes, phase>>
requestVars == <<given, sent>>
deepVars    == <<deepObj, converted>>
serviceVars == <<token, userInfo, tasks, issued, fresh, started, clears>>
vars        == <<text, trail, modules, linkObjs, rels, held, last,
                 rawResponse, options, parsedEntries, writes, phase,
                 given, sent, deepObj, converted,
                 token, userInfo, tasks, issued, fresh, started, clears>>

(***************************************************************************)
(* Bounds of the model.                                                    *)
(***************************************************************************)
MaxStrLen == 4              \* longest enumerated input of the case converter
MaxCalls == 2               \* conversions chained on one input
MaxModules == 4             \* module descriptors on the heap
MaxNodes == 7               \* nodes (entries, fields, links, records) of a response
MaxList == 2                \* elements of one list of a response
MaxTree == 3                \* nodes of a value inside a record given to a deep converter
MaxOps == 2                 \* operations started on the service instance
MaxClears == 1              \* clearToken() calls made by callers

(***************************************************************************)
(* Characters.  /[A-Z]/ and /[a-z]/ are the ASCII ranges; toLowerCase and  *)
(* toUpperCase are applied by the converters to characters of those ranges *)
(* only.                                                                   *)
(***************************************************************************)
LowerChars == <<"a","b","c","d","e","f","g","h","i","j","k","l","m",
                "n","o","p","q","r","s","t","u","v","w","x","y","z">>
UpperChars == <<"A","B","C","D","E","F","G","H","I","J","K","L","M",
                "N","O","P","Q","R","S","T","U","V","W","X","Y","Z">>

IsUpper(c) == \E i \in 1..Len(UpperChars) : UpperChars[i] = c
IsLower(c) == \E i \in 1..Len(LowerChars) : LowerChars[i] = c

toLowerCase(c) ==
    IF IsUpper(c) THEN LowerChars[CHOOSE i \in 1..Len(UpperChars) : UpperChars[i] = c]
    ELSE c

toUpperCase(c) ==
    IF IsLower(c) THEN UpperChars[CHOOSE i \in 1..Len(LowerChars) : LowerChars[i] = c]
    ELSE c

(***************************************************************************)
(* camelToSnake: str.replace(/[A-Z]/g, l => `_${l.toLowerCase()}`)         *)
(***************************************************************************)
RECURSIVE camelToSnakeFrom(_)
camelToSnakeFrom(str) ==
    IF str = <<>> THEN <<>>
    ELSE IF IsUpper(Head(str))
         THEN <<"_", toLowerCase(Head(str))>> \o camelToSnakeFrom(Tail(str))
         ELSE <<Head(str)>> \o camelToSnakeFrom(Tail(str))

\* a converter whose pattern lost the g flag: only the first capital is replaced
camelToSnakeFirstOnly(str) ==
    IF \E i \in 1..Len(str) : IsUpper(str[i])
    THEN LET i == CHOOSE i \in 1..Len(str) :
                     IsUpper(str[i]) /\ \A j \in 1..(i-1) : ~IsUpper(str[j])
         IN  SubSeq(str, 1, i-1) \o <<"_", toLowerCase(str[i])>>
                 \o SubSeq(str, i+1, Len(str))
    ELSE str

camelToSnake(str) == camelToSnakeFrom(str)

(***************************************************************************)
(* snakeToCamel: str.replace(/_([a-z])/g, (_, l) => l.toUpperCase())       *)
(* The scan is left to right and matches do not overlap: an underscore     *)
(* that is not followed by a lowercase letter is copied.                   *)
(***************************************************************************)
RECURSIVE snakeToCamelFrom(_)
snakeToCamelFrom(str) ==
    IF str = <<>> THEN <<>>
    ELSE IF Head(str) = "_" /\ Len(str) >= 2 /\ IsLower(str[2])
         THEN <<toUpperCase(str[2])>> \o snakeToCamelFrom(SubSeq(str, 3, Len(str)))
         ELSE <<Head(str)>> \o snakeToCamelFrom(Tail(str))

\* a converter whose pattern lost the g flag: only the first match is replaced
snakeToCamelFirstOnly(str) ==
    IF \E i \in 1..(Len(str)-1) : str[i] = "_" /\ IsLower(str[i+1])
    THEN LET i == CHOOSE i \in 1..(Len(str)-1) :
                     /\ str[i] = "_" /\ IsLower(str[i+1])
                     /\ \A j \in 1..(i-1) : ~(str[j] = "_" /\ IsLower(str[j+1]))
         IN  SubSeq(str, 1, i-1) \o <<toUpperCase(str[i+1])>>
                 \o SubSeq(str, i+2, Len(str))
    ELSE str

snakeToCamel(str) == snakeToCamelFrom(str)

(***************************************************************************)
(* Type-level key computation of suitecrm.ts.                              *)
(*   Capitalize<S>: the intrinsic, upper-cases the first character.        *)
(*   SnakeToCamelCase<S>: S extends `${infer T}_${infer U}`                *)
(*        ? `${T}${Capitalize<SnakeToCamelCase<U>>}` : S                   *)
(*   T is inferred as the text before the FIRST underscore.                *)
(***************************************************************************)
Capitalize(S) == IF S = <<>> THEN <<>> ELSE <<toUpperCase(Head(S))>> \o Tail(S)

RECURSIVE SnakeToCamelCase(_)
SnakeToCamelCase(S) ==
    IF \E i \in 1..Len(S) : S[i] = "_"
    THEN LET i == CHOOSE i \in 1..Len(S) :
                     S[i] = "_" /\ \A j \in 1..(i-1) : S[j] # "_"
             T == SubSeq(S, 1, i-1)
             U == SubSeq(S, i+1, Len(S))
         IN  T \o Capitalize(SnakeToCamelCase(U))
    ELSE S

\* the key of FlattenedRelationship: `${SnakeToCamelCase<LinkName>}${Capitalize<P>}`
FlattenedRelationshipKey(LinkName, P) == SnakeToCamelCase(LinkName) \o Capitalize(P)

\* the key of SuiteCrmModule.links as typed: SnakeToCamelCase<K>
LinksTypeKey(K) == SnakeToCamelCase(K)

\* `${linkName}_${fieldName}`
concatenatedKey(linkName, fieldName) == linkName \o <<"_">> \o fieldName

\* the key under which flattenEntryList stores field fieldName of link linkName
flattenedKey(linkName, fieldName) == snakeToCamel(concatenatedKey(linkName, fieldName))

(***************************************************************************)
(* Case converter: a caller converts a name, and may convert the result    *)
(* back.  Every call is recorded in trail.                                 *)
(***************************************************************************)
CaseChars == {"a", "b", "A", "B", "1", "_"}

StringsUpTo(n) == UNION {[1..k -> CaseChars] : k \in 0..n}

\* the names the documentation of the converters uses as examples
ExampleNames ==
    { <<"f","i","t","a","c","F","i","t","a","c","P","r","o","y">>,
      <<"f","i","t","a","c","_","f","i","t","a","c","_","p","r","o","y">>,
      <<"a","s","s","i","g","n","e","d","U","s","e","r","I","d">>,
      <<"a","s","s","i","g","n","e","d","_","u","s","e","r","_","i","d">> }

CaseInputs == StringsUpTo(MaxStrLen) \cup ExampleNames

CaseIdle == text = <<>> /\ trail = <<>>

CallCamelToSnake ==
    /\ Len(trail) < MaxCalls
    /\ trail' = Append(trail, [fn |-> "camelToSnake", arg |-> text,
                               ret |-> camelToSnake(text)])
    /\ text' = camelToSnake(text)
    /\ UNCHANGED <<moduleVars, flattenVars, requestVars, deepVars, serviceVars>>

CallSnakeToCamel ==
    /\ Len(trail) < MaxCalls
    /\ trail' = Append(trail, [fn |-> "snakeToCamel", arg |-> text,
                               ret |-> snakeToCamel(text)])
    /\ text' = snakeToCamel(text)
    /\ UNCHANGED <<moduleVars, flattenVars, requestVars, deepVars, serviceVars>>

(***************************************************************************)
(* Module / relationship builder (SuiteCrmModule.ts).                      *)
(*                                                                         *)
(* Objects live on heaps and are named by their index: a module holds a    *)
(* REFERENCE to the plain object of its links, as the constructor stores   *)
(* the object it is given (this.links = existingLinks).                    *)
(***************************************************************************)
Callers == {1, 2}

\* remote link names: two that normalize to the same key, one with a digit segment
LinkNames == { <<"a","_","b">>, <<"a","B">>, <<"a","_","1">> }

\* internal (camelCase) field names a caller may select
FieldLists == { <<>>, << <<"i","d">> >>, << <<"i","d">>, <<"a","B">> >> }

EmptyObject == [k \in {} |-> 0]

\* { ...obj, [key]: value }
Put(obj, key, value) ==
    [k \in (DOMAIN obj) \cup {key} |-> IF k = key THEN value ELSE obj[k]]

\* new SuiteCrmRelationship(linkName, relatedModule)
SuiteCrmRelationship(linkName, relatedModule) ==
    [linkName |-> linkName, relatedModule |-> relatedModule]

\* new SuiteCrmModule(name, existingLinks): existingLinks is a reference
SuiteCrmModule(name, existingLinks) == [name |-> name, links |-> existingLinks]

\* the object a module's links refers to
LinksOf(m) == linkObjs[modules[m].links]

\* withLink that adds the relationship to this.links itself and hands the
\* same object to the new module
withLinkInPlace(self, linkName, relatedModule) ==
    LET newRelationship == Len(rels) + 1
        camelKey == snakeToCamel(linkName)
    IN  [ rels     |-> Append(rels, SuiteCrmRelationship(linkName, relatedModule)),
          linkObjs |-> [linkObjs EXCEPT ![modules[self].links] =
                            Put(@, camelKey, newRelationship)],
          modules  |-> Append(modules,
                          SuiteCrmModule(modules[self].name, modules[self].links)),
          ret      |-> Len(modules) + 1,
          threw    |-> FALSE ]

\* withLink that keys the relationship by the link name as given
withLinkRawKey(self, linkName, relatedModule) ==
    LET newRelationship == Len(rels) + 1
        newLinks == Put(LinksOf(self), linkName, newRelationship)
    IN  [ rels     |-> Append(rels, SuiteCrmRelationship(linkName, relatedModule)),
          linkObjs |-> Append(linkObjs, newLinks),
          modules  |-> Append(modules,
                          SuiteCrmModule(modules[self].name, Len(linkObjs) + 1)),
          ret      |-> Len(modules) + 1,
          threw    |-> FALSE ]

\* SuiteCrmModule.withLink: the heaps after the call, the module returned,
\* and whether the call threw (it has no throw statement)
withLink(self, linkName, relatedModule) ==
    LET newRelationship == Len(rels) + 1
        camelKey == snakeToCamel(linkName)
        newLinks == Put(LinksOf(self), camelKey, newRelationship)
    IN  [ rels     |-> Append(rels, SuiteCrmRelationship(linkName, relatedModule)),
          linkObjs |-> Append(linkObjs, newLinks),
          modules  |-> Append(modules,
                          SuiteCrmModule(modules[self].name, Len(linkObjs) + 1)),
          ret      |-> Len(modules) + 1,
          threw    |-> FALSE ]

\* SuiteCrmRelationship.select: the LinkQuery
select(rel, selectedFields) ==
    [ linkName |-> rels[rel].linkName,
      module |-> rels[rel].relatedModule,
      selectedFields |-> selectedFields ]

NoQuery == [linkName |-> <<>>, module |-> 0, selectedFields |-> <<>>]

NoCall == [ op |-> "none", caller |-> 0, self |-> 0, linkName |-> <<>>,
            relatedModule |-> 0, before |-> EmptyObject, ret |-> 0,
            threw |-> FALSE, query |-> NoQuery ]

\* application setup: two modules, each constructed with the default {} of
\* its own, and every caller sharing the first as its base descriptor
ModuleStart ==
    /\ modules = << SuiteCrmModule("Fitac_fitac", 1), SuiteCrmModule("proy_Proyectos", 2) >>
    /\ linkObjs = << EmptyObject, EmptyObject >>
    /\ rels = <<>>
    /\ held = [c \in Callers |-> 1]
    /\ last = NoCall

ModuleIdle ==
    /\ modules = <<>> /\ linkObjs = <<>> /\ rels = <<>>
    /\ held = [c \in Callers |-> 0]
    /\ last = NoCall

Base == 1

\* caller c calls withLink on the shared base or on the descriptor it holds,
\* and keeps the descriptor returned
WithLink(c, self, linkName, relatedModule) ==
    /\ Len(modules) < MaxModules
    /\ self \in {Base, held[c]}
    /\ LET r == withLink(self, linkName, relatedModule)
       IN  /\ modules' = r.modules
           /\ linkObjs' = r.linkObjs
           /\ rels' = r.rels
           /\ held' = [held EXCEPT ![c] = r.ret]
           /\ last' = [ op |-> "withLink", caller |-> c, self |-> self,
                        linkName |-> linkName, relatedModule |-> relatedModule,
                        before |-> LinksOf(self), ret |-> r.ret,
                        threw |-> r.threw, query |-> NoQuery ]
    /\ UNCHANGED <<caseVars, flattenVars, requestVars, deepVars, serviceVars>>

\* caller c builds a LinkQuery from a relationship of the descriptor it holds
Select(c, key, selectedFields) ==
    /\ key \in DOMAIN LinksOf(held[c])
    /\ last' = [ op |-> "select", caller |-> c, self |-> held[c],
                 linkName |-> key, relatedModule |-> 0,
                 before |-> LinksOf(held[c]), ret |-> LinksOf(held[c])[key],
                 threw |-> FALSE,
                 query |-> select(LinksOf(held[c])[key], selectedFields) ]
    /\ UNCHANGED <<modules, linkObjs, rels, held>>
    /\ UNCHANGED <<caseVars, flattenVars, requestVars, deepVars, serviceVars>>

(***************************************************************************)
(* Flattening (SuiteCrmService.flattenEntryList).                          *)
(*                                                                         *)
(* An optional property is <<>> when absent (undefined or null) and <<x>>  *)
(* when present.  A name_value_list or link_value is the sequence of its   *)
(* [key, value] pairs in the order Object.entries yields them, with        *)
(* distinct keys; value is the .value of the NameValue.                    *)
(*   EntryListResponse = [entry_list, relationship_list]                   *)
(*   entry             = [name_value_list]                                 *)
(*   relationship      = [link_list]     (an element may be null)          *)
(*   LinkList          = [name, records]                                   *)
(*   LinkRecord        = [link_value]                                      *)
(***************************************************************************)
None == <<>>
Some(x) == <<x>>

\* x || [] and x || {}
OrEmpty(opt) == IF opt = None THEN <<>> ELSE opt[1]

\* remote field names of the primary module, link names and link field names:
\* c_b and cB normalize to the same key, which is also the key of field b of
\* link c; field a_b of link c and field b of link c_a share a key too.
\* Values are opaque to the flattening: the n-th pair of a response carries
\* the value n, so that every pair is told from every other.
OwnKeys    == { <<"c","_","b">>, <<"c","B">> }
RespLinks  == { <<"c">>, <<"c","_","a">> }
LinkKeys   == { <<"b">>, <<"a","_","b">> }

\* flatEntry[key] = value, keeping an earlier value of the key
AssignKeepFirst(flatEntry, w) ==
    IF w.key \in DOMAIN flatEntry THEN flatEntry ELSE Put(flatEntry, w.key, w.value)

\* flatEntry[key] = value
Assign(flatEntry, w) == Put(flatEntry, w.key, w.value)

RECURSIVE AssignAll(_, _)
AssignAll(flatEntry, ws) ==
    IF ws = <<>> THEN flatEntry
    ELSE AssignAll(Assign(flatEntry, Head(ws)), Tail(ws))

RECURSIVE Concat(_)
Concat(seqs) == IF seqs = <<>> THEN <<>> ELSE Head(seqs) \o Concat(Tail(seqs))

\* the first loop with the key stored as the response gives it
ownWritesRawKey(entry) ==
    LET nameValueList == OrEmpty(entry.name_value_list)
    IN  [j \in 1..Len(nameValueList) |->
            [key |-> nameValueList[j].key, value |-> nameValueList[j].value]]

\* for (const [key, valueObj] of Object.entries(nameValueList))
\*   flatEntry[snakeToCamel(key)] = valueObj?.value
ownWrites(entry) ==
    LET nameValueList == OrEmpty(entry.name_value_list)
    IN  [j \in 1..Len(nameValueList) |->
            [key |-> snakeToCamel(nameValueList[j].key),
             value |-> nameValueList[j].value]]

\* for (const [fieldName, fieldValue] of Object.entries(linkValue))
\*   flatEntry[snakeToCamel(`${linkName}_${fieldName}`)] = fieldValue?.value
recordWrites(linkName, record) ==
    LET linkValue == OrEmpty(record.link_value)
    IN  [j \in 1..Len(linkValue) |->
            [key |-> flattenedKey(linkName, linkValue[j].key),
             value |-> linkValue[j].value]]

\* for (const record of records)
linkWrites(link) ==
    LET records == OrEmpty(link.records)
    IN  Concat([r \in 1..Len(records) |-> recordWrites(link.name, records[r])])

\* for (const link of linkList)
relationshipWrites(relationship) ==
    LET linkList == OrEmpty(relationship.link_list)
    IN  Concat([g \in 1..Len(linkList) |-> linkWrites(linkList[g])])

\* relationshipList[0], whatever the index
relationshipAtFirst(relationshipList, i) ==
    IF Len(relationshipList) >= 1 THEN relationshipList[1] ELSE None

\* relationshipList[i], or the last element when the list is shorter
relationshipAtOrLast(relationshipList, i) ==
    IF i <= Len(relationshipList) THEN relationshipList[i]
    ELSE IF Len(relationshipList) >= 1 THEN relationshipList[Len(relationshipList)]
    ELSE None

\* relationshipList[i]: undefined beyond the end of the list
relationshipAt(relationshipList, i) ==
    IF i <= Len(relationshipList) THEN relationshipList[i] ELSE None

\* the assignments the body of the loop over entryList makes for entry i
entryWrites(result, i) ==
    LET entryList == OrEmpty(result.entry_list)
        relationshipList == OrEmpty(result.relationship_list)
        relationship == relationshipAt(relationshipList, i)
    IN  ownWrites(entryList[i])
        \o (IF relationship # None THEN relationshipWrites(relationship[1]) ELSE <<>>)

flattenEntryList(result) ==
    LET entryList == OrEmpty(result.entry_list)
    IN  [i \in 1..Len(entryList) |-> AssignAll(EmptyObject, entryWrites(result, i))]

NoOptions == [selectedFields |-> <<>>, linkNameToFieldsArray |-> <<>>]

\* what getEntryList may be called with: own-field selections (internal
\* names) and LinkQuery lists
OptionsSet ==
    {NoOptions} \cup
    [ selectedFields : { << <<"c","B">> >> },
      linkNameToFieldsArray :
          { <<>>, << [linkName |-> <<"c">>, module |-> 2,
                      selectedFields |-> << <<"b">> >>] >> } ]

\* the keys of the statically projected shape FlattenedSelectedModule
SelectedKeys(opts) ==
    { opts.selectedFields[j] : j \in 1..Len(opts.selectedFields) }
    \cup UNION { { FlattenedRelationshipKey(opts.linkNameToFieldsArray[q].linkName,
                       opts.linkNameToFieldsArray[q].selectedFields[j]) :
                     j \in 1..Len(opts.linkNameToFieldsArray[q].selectedFields) } :
                 q \in 1..Len(opts.linkNameToFieldsArray) }

\* getEntryList that keeps only the requested keys when a selection is given
getEntryListNarrowed(opts, response) ==
    LET flat == flattenEntryList(response)
    IN  IF opts = NoOptions THEN flat
        ELSE [i \in 1..Len(flat) |->
                [k \in (DOMAIN flat[i]) \cap SelectedKeys(opts) |-> flat[i][k]]]

\* getEntryList: the options shape the request (getEntryListRaw); the
\* records are the flattening of whatever response came back
getEntryList(opts, response) == flattenEntryList(response)

RECURSIVE Total(_)
Total(ns) == IF ns = <<>> THEN 0 ELSE Head(ns) + Total(Tail(ns))

\* entries, fields, relationship elements, links, records and link fields
Nodes(result) ==
    LET entryList == OrEmpty(result.entry_list)
        relationshipList == OrEmpty(result.relationship_list)
        recordNodes(record) == 1 + Len(OrEmpty(record.link_value))
        linkNodes(link) ==
            1 + Total([r \in 1..Len(OrEmpty(link.records)) |->
                          recordNodes(OrEmpty(link.records)[r])])
        relNodes(rel) ==
            1 + (IF rel = None THEN 0
                 ELSE Total([g \in 1..Len(OrEmpty(rel[1].link_list)) |->
                                linkNodes(OrEmpty(rel[1].link_list)[g])]))
    IN  Total([i \in 1..Len(entryList) |->
                  1 + Len(OrEmpty(entryList[i].name_value_list))])
        + Total([i \in 1..Len(relationshipList) |-> relNodes(relationshipList[i])])

\* the pairs of a response, own and relationship ones
Pairs(result) ==
    LET entryList == OrEmpty(result.entry_list)
        relationshipList == OrEmpty(result.relationship_list)
        linkPairs(link) ==
            Total([r \in 1..Len(OrEmpty(link.records)) |->
                      Len(OrEmpty(OrEmpty(link.records)[r].link_value))])
        relPairs(rel) ==
            IF rel = None THEN 0
            ELSE Total([g \in 1..Len(OrEmpty(rel[1].link_list)) |->
                           linkPairs(OrEmpty(rel[1].link_list)[g])])
    IN  Total([i \in 1..Len(entryList) |-> Len(OrEmpty(entryList[i].name_value_list))])
        + Total([i \in 1..Len(relationshipList) |-> relPairs(relationshipList[i])])

NextValue == Pairs(rawResponse) + 1

KeysOf(pairs) == { pairs[j].key : j \in 1..Len(pairs) }

FlattenStart ==
    /\ rawResponse \in [ entry_list : {None, Some(<<>>)},
                         relationship_list : {None, Some(<<>>)} ]
    /\ options = NoOptions
    /\ parsedEntries = <<>>
    /\ writes = <<>>
    /\ phase = "idle"

FlattenIdle ==
    /\ rawResponse = [entry_list |-> None, relationship_list |-> None]
    /\ options = NoOptions
    /\ parsedEntries = <<>>
    /\ writes = <<>>
    /\ phase = "off"

Assembling == phase = "idle" /\ Nodes(rawResponse) < MaxNodes

\* The remote endpoint assembles its reply, one node at a time.  It may leave
\* out entry_list, relationship_list, a name_value_list or a link_list, and
\* may send null for a relationship element; a link it sends has its records
\* and a record its link_value.
AddEntry(nvl) ==
    /\ Assembling
    /\ rawResponse.entry_list # None
    /\ Len(rawResponse.entry_list[1]) < MaxList
    /\ rawResponse' = [rawResponse EXCEPT !.entry_list[1] =
                          Append(@, [name_value_list |-> nvl])]
    /\ UNCHANGED <<options, parsedEntries, writes, phase>>
    /\ UNCHANGED <<caseVars, moduleVars, requestVars, deepVars, serviceVars>>

AddOwnField(key) ==
    /\ Assembling
    /\ LET entryList == OrEmpty(rawResponse.entry_list)
           n == Len(entryList)
       IN  /\ n >= 1
           /\ entryList[n].name_value_list # None
           /\ key \notin KeysOf(entryList[n].name_value_list[1])
           /\ rawResponse' = [rawResponse EXCEPT
                  !.entry_list[1][n].name_value_list[1] =
                      Append(@, [key |-> key, value |-> NextValue])]
    /\ UNCHANGED <<options, parsedEntries, writes, phase>>
    /\ UNCHANGED <<caseVars, moduleVars, requestVars, deepVars, serviceVars>>

AddRelationship(rel) ==
    /\ Assembling
    /\ rawResponse.relationship_list # None
    /\ Len(rawResponse.relationship_list[1]) < MaxList
    /\ rawResponse' = [rawResponse EXCEPT !.relationship_list[1] = Append(@, rel)]
    /\ UNCHANGED <<options, parsedEntries, writes, phase>>
    /\ UNCHANGED <<caseVars, moduleVars, requestVars, deepVars, serviceVars>>

AddLink(name, records) ==
    /\ Assembling
    /\ LET relationshipList == OrEmpty(rawResponse.relationship_list)
           n == Len(relationshipList)
       IN  /\ n >= 1
           /\ relationshipList[n] # None
           /\ relationshipList[n][1].link_list # None
           /\ Len(relationshipList[n][1].link_list[1]) < MaxList
           /\ rawResponse' = [rawResponse EXCEPT
                  !.relationship_list[1][n][1].link_list[1] =
                      Append(@, [name |-> name, records |-> records])]
    /\ UNCHANGED <<options, parsedEntries, writes, phase>>
    /\ UNCHANGED <<caseVars, moduleVars, requestVars, deepVars, serviceVars>>

AddRecord(linkValue) ==
    /\ Assembling
    /\ LET relationshipList == OrEmpty(rawResponse.relationship_list)
           n == Len(relationshipList)
       IN  /\ n >= 1
           /\ relationshipList[n] # None
           /\ LET linkList == OrEmpty(relationshipList[n][1].link_list)
                  g == Len(linkList)
              IN  /\ g >= 1
                  /\ linkList[g].records # None
                  /\ Len(linkList[g].records[1]) < MaxList
                  /\ rawResponse' = [rawResponse EXCEPT
                         !.relationship_list[1][n][1].link_list[1][g].records[1] =
                             Append(@, [link_value |-> linkValue])]
    /\ UNCHANGED <<options, parsedEntries, writes, phase>>
    /\ UNCHANGED <<caseVars, moduleVars, requestVars, deepVars, serviceVars>>

AddLinkField(key) ==
    /\ Assembling
    /\ LET relationshipList == OrEmpty(rawResponse.relationship_list)
           n == Len(relationshipList)
       IN  /\ n >= 1
           /\ relationshipList[n] # None
           /\ LET linkList == OrEmpty(relationshipList[n][1].link_list)
                  g == Len(linkList)
              IN  /\ g >= 1
                  /\ LET records == OrEmpty(linkList[g].records)
                         r == Len(records)
                     IN  /\ r >= 1
                         /\ records[r].link_value # None
                         /\ key \notin KeysOf(records[r].link_value[1])
                         /\ rawResponse' = [rawResponse EXCEPT
                                !.relationship_list[1][n][1].link_list[1][g]
                                    .records[1][r].link_value[1] =
                                    Append(@, [key |-> key, value |-> NextValue])]
    /\ UNCHANGED <<options, parsedEntries, writes, phase>>
    /\ UNCHANGED <<caseVars, moduleVars, requestVars, deepVars, serviceVars>>

\* getEntryList(opts) receives the reply and returns the flattened records
GetEntryList(opts) ==
    /\ phase = "idle"
    /\ options' = opts
    /\ parsedEntries' = getEntryList(opts, rawResponse)
    /\ writes' = [i \in 1..Len(OrEmpty(rawResponse.entry_list)) |->
                     entryWrites(rawResponse, i)]
    /\ phase' = "done"
    /\ UNCHANGED <<rawResponse, caseVars, moduleVars, requestVars, deepVars, serviceVars>>

(***************************************************************************)
(* JavaScript values, as the deep converters and setEntry see them.        *)
(*   leaf : a number, string or boolean (v tells one from another)         *)
(*   null : null or undefined                                              *)
(*   obj  : a plain object (constructor === Object); kids are its          *)
(*          [key, value] pairs in the order Object.entries yields them     *)
(*   inst : an object that is not plain (a class instance, a Date, a Map); *)
(*          kids are its own enumerable [key, value] pairs                 *)
(*   arr  : an array; kids are its elements                                *)
(***************************************************************************)
Leaf(n)     == [t |-> "leaf", v |-> n, kids |-> <<>>]
Null        == [t |-> "null", v |-> 0, kids |-> <<>>]
Obj(pairs)  == [t |-> "obj",  v |-> 0, kids |-> pairs]
Inst(pairs) == [t |-> "inst", v |-> 0, kids |-> pairs]
Arr(items)  == [t |-> "arr",  v |-> 0, kids |-> items]

\* typeof item === 'object' && item !== null
IsObjectType(value) == value.t \in {"obj", "inst", "arr"}

DigitChars == <<"0","1","2","3","4","5","6","7","8","9">>

\* Object.entries(obj): of an array, its elements under their indices
entries(obj) ==
    IF obj.t = "arr"
    THEN [i \in 1..Len(obj.kids) |-> [key |-> <<DigitChars[i]>>, value |-> obj.kids[i]]]
    ELSE obj.kids

\* result[key] = value on the pairs of an object: a key that is present
\* keeps its place
SetProperty(pairs, key, value) ==
    IF \E j \in 1..Len(pairs) : pairs[j].key = key
    THEN [j \in 1..Len(pairs) |->
            IF pairs[j].key = key THEN [key |-> key, value |-> value] ELSE pairs[j]]
    ELSE Append(pairs, [key |-> key, value |-> value])

(***************************************************************************)
(* objectToSnakeCase / objectToCamelCase (caseConverter.ts).  The value of *)
(* a key is converted when it is an array (each element that is an object  *)
(* of any kind is handed to the converter itself) or a plain object, and   *)
(* copied otherwise.  The result is always a plain object.                 *)
(***************************************************************************)
RECURSIVE objectToSnakeCase(_), snakeCaseValue(_), snakeCaseEntries(_, _)

snakeCaseValue(value) ==
    IF value.t = "null" THEN value
    ELSE IF value.t = "arr"
         THEN Arr([i \in 1..Len(value.kids) |->
                     IF IsObjectType(value.kids[i])
                     THEN objectToSnakeCase(value.kids[i])
                     ELSE value.kids[i]])
    ELSE IF value.t = "obj" THEN objectToSnakeCase(value)
    ELSE value

snakeCaseEntries(result, es) ==
    IF es = <<>> THEN result
    ELSE snakeCaseEntries(
             SetProperty(result, camelToSnake(Head(es).key), snakeCaseValue(Head(es).value)),
             Tail(es))

objectToSnakeCase(obj) == Obj(snakeCaseEntries(<<>>, entries(obj)))

RECURSIVE objectToCamelCase(_), camelCaseValue(_), camelCaseEntries(_, _)

camelCaseValue(value) ==
    IF value.t = "null" THEN value
    ELSE IF value.t = "arr"
         THEN Arr([i \in 1..Len(value.kids) |->
                     IF IsObjectType(value.kids[i])
                     THEN objectToCamelCase(value.kids[i])
                     ELSE value.kids[i]])
    ELSE IF value.t = "obj" THEN objectToCamelCase(value)
    ELSE value

camelCaseEntries(result, es) ==
    IF es = <<>> THEN result
    ELSE camelCaseEntries(
             SetProperty(result, snakeToCamel(Head(es).key), camelCaseValue(Head(es).value)),
             Tail(es))

objectToCamelCase(obj) == Obj(camelCaseEntries(<<>>, entries(obj)))

\* keys of the records given to the deep converters
DeepKeys == { <<"a","B">>, <<"c","_","d">> }

\* the values of exactly n nodes: scalars, null, and empty or one-field
\* plain objects, objects that are not plain, and lists of one or two elements
RECURSIVE TreesOf(_)
TreesOf(n) ==
    IF n = 1 THEN { Leaf(1), Null, Obj(<<>>), Inst(<<>>), Arr(<<>>) }
    ELSE { Obj(<< [key |-> k, value |-> v] >>) : k \in DeepKeys, v \in TreesOf(n-1) }
         \cup { Inst(<< [key |-> k, value |-> v] >>) : k \in DeepKeys, v \in TreesOf(n-1) }
         \cup { Arr(<<v>>) : v \in TreesOf(n-1) }
         \cup UNION { { Arr(<<v, w>>) : v \in TreesOf(m), w \in TreesOf(n-1-m) } :
                      m \in 1..(n-2) }

\* the records a deep converter is given: one field, its value of at most
\* MaxTree nodes
DeepInputs ==
    { Obj(<< [key |-> k, value |-> v] >>) :
        k \in DeepKeys, v \in UNION { TreesOf(n) : n \in 1..MaxTree } }

NoConversion == [fn |-> "none", ret |-> Null]

DeepIdle == deepObj = Null /\ converted = NoConversion

CallObjectToSnakeCase ==
    /\ converted = NoConversion
    /\ converted' = [fn |-> "objectToSnakeCase", ret |-> objectToSnakeCase(deepObj)]
    /\ UNCHANGED <<deepObj, caseVars, moduleVars, flattenVars, requestVars, serviceVars>>

CallObjectToCamelCase ==
    /\ converted = NoConversion
    /\ converted' = [fn |-> "objectToCamelCase", ret |-> objectToCamelCase(deepObj)]
    /\ UNCHANGED <<deepObj, caseVars, moduleVars, flattenVars, requestVars, serviceVars>>

(***************************************************************************)
(* Request building (SuiteCrmService.getEntryListRaw and setEntry): the    *)
(* arguments handed to call(), which adds the session.                     *)
(***************************************************************************)
\* entryArgs with every link named by its key in links
entryArgsKeyedLinks(opts) ==
    [ module_name |-> modules[opts.module].name,
      query |-> opts.query,
      order_by |-> IF opts.orderBy # None /\ opts.orderBy[1] # <<>>
                   THEN camelToSnake(opts.orderBy[1]) ELSE <<>>,
      offset |-> IF opts.offset # None THEN opts.offset[1] ELSE 0,
      select_fields |->
          IF opts.selectedFields # None
          THEN [j \in 1..Len(opts.selectedFields[1]) |->
                   camelToSnake(opts.selectedFields[1][j])]
          ELSE <<>>,
      link_name_to_fields_array |->
          IF opts.linkNameToFieldsArray # None
          THEN [q \in 1..Len(opts.linkNameToFieldsArray[1]) |->
                   LET item == opts.linkNameToFieldsArray[1][q]
                   IN  [ name |-> snakeToCamel(item.linkName),
                         value |-> [j \in 1..Len(item.selectedFields) |->
                                       camelToSnake(item.selectedFields[j])] ]]
          ELSE <<>>,
      max_results |-> IF opts.maxResults # None THEN opts.maxResults[1] ELSE 20,
      deleted |-> IF opts.deleted = Some(TRUE) THEN 1 ELSE 0 ]

\* the entryArgs of getEntryListRaw
entryArgs(opts) ==
    [ module_name |-> modules[opts.module].name,
      query |-> opts.query,
      order_by |-> IF opts.orderBy # None /\ opts.orderBy[1] # <<>>
                   THEN camelToSnake(opts.orderBy[1]) ELSE <<>>,
      offset |-> IF opts.offset # None THEN opts.offset[1] ELSE 0,
      select_fields |->
          IF opts.selectedFields # None
          THEN [j \in 1..Len(opts.selectedFields[1]) |->
                   camelToSnake(opts.selectedFields[1][j])]
          ELSE <<>>,
      link_name_to_fields_array |->
          IF opts.linkNameToFieldsArray # None
          THEN [q \in 1..Len(opts.linkNameToFieldsArray[1]) |->
                   LET item == opts.linkNameToFieldsArray[1][q]
                   IN  [ name |-> item.linkName,
                         value |-> [j \in 1..Len(item.selectedFields) |->
                                       camelToSnake(item.selectedFields[j])] ]]
          ELSE <<>>,
      max_results |-> IF opts.maxResults # None THEN opts.maxResults[1] ELSE 20,
      deleted |-> IF opts.deleted = Some(TRUE) THEN 1 ELSE 0 ]

RECURSIVE parseEntries(_, _)
parseEntries(parsedNameValueList, es) ==
    IF es = <<>> THEN parsedNameValueList
    ELSE parseEntries(
             SetProperty(parsedNameValueList, Head(es).key,
                         [name |-> Head(es).key, value |-> Head(es).value]),
             Tail(es))

\* parseNameValueList that wraps every value but names none
parseNameValueListUnnamed(nameValueList) ==
    [j \in 1..Len(entries(nameValueList)) |->
        [ key |-> entries(nameValueList)[j].key,
          value |-> [name |-> <<>>, value |-> entries(nameValueList)[j].value] ]]

\* parseNameValueList: parsedNameValueList[key] = { name: key, value: value }
parseNameValueList(nameValueList) == parseEntries(<<>>, entries(nameValueList))

\* the arguments setEntry hands to call(); session is this.token as read
\* when setEntry builds them
setEntryArgs(opts, session) ==
    LET snakeCaseValues == objectToSnakeCase(opts.values)
    IN  [ session |-> session,
          module_name |-> modules[opts.module].name,
          name_value_list |-> parseNameValueList(snakeCaseValues) ]

NoGiven == [op |-> "none"]
NoRequest == [method |-> "none"]

RequestIdle == given = NoGiven /\ sent = NoRequest

\* orderBy: absent, empty, or a field name
OrderBys == { None, Some(<<>>), Some(<<"a","B","C">>) }

\* selectedFields: absent, empty, or internal field names in an order
SelectedFieldLists ==
    { None, Some(<<>>), Some(<< <<"a","B">>, <<"i","d">> >>),
      Some(<< <<"i","d">>, <<"a","B">> >>) }

\* the rest of the options, left out or given; the filter expression is
\* opaque text with capitals and underscores of its own
Paging ==
    { [query |-> <<>>, offset |-> None, maxResults |-> None, deleted |-> None],
      [query |-> <<"a","B","_","c","=","1">>, offset |-> Some(5),
       maxResults |-> Some(3), deleted |-> Some(TRUE)],
      [query |-> <<"a","B","_","c","=","1">>, offset |-> Some(0),
       maxResults |-> None, deleted |-> Some(FALSE)] }

\* the fields asked of the q-th relationship of a query
FieldsOfPick(q) == IF q = 1 THEN << <<"i","d">>, <<"a","B">> >> ELSE << <<"a","B">> >>

\* sequences of at most n keys of links
PicksUpTo(keys, n) == UNION { [1..k -> keys] : k \in 0..n }

\* caller c asks for a list: the LinkQuery of every relationship asked for
\* is built by select() on the relationship held under the key in links
GetEntryListRaw(c, paging, orderBy, selectedFields, picks) ==
    /\ LET links == LinksOf(held[c])
           queries == IF picks = None THEN None
                      ELSE Some([q \in 1..Len(picks[1]) |->
                                    select(links[picks[1][q]], FieldsOfPick(q))])
           opts == [ module |-> held[c],
                     query |-> paging.query,
                     orderBy |-> orderBy,
                     offset |-> paging.offset,
                     selectedFields |-> selectedFields,
                     linkNameToFieldsArray |-> queries,
                     maxResults |-> paging.maxResults,
                     deleted |-> paging.deleted ]
       IN  /\ given' = [ op |-> "getEntryList", options |-> opts,
                         relationships |->
                             IF picks = None THEN <<>>
                             ELSE [q \in 1..Len(picks[1]) |-> links[picks[1][q]]] ]
           /\ sent' = [method |-> "get_entry_list", args |-> entryArgs(opts)]
    /\ UNCHANGED <<caseVars, moduleVars, flattenVars, deepVars, serviceVars>>

\* values a caller may set: scalars, null, a nested record, a list holding a
\* record, an object that is not plain
SetValues ==
    { Leaf(1), Leaf(2), Null,
      Obj(<< [key |-> <<"c","D">>, value |-> Leaf(3)] >>),
      Arr(<< Leaf(4), Obj(<< [key |-> <<"c","D">>, value |-> Leaf(5)] >>) >>),
      Inst(<< [key |-> <<"c","D">>, value |-> Leaf(6)] >>) }

\* field names of the caller's model: camelCase ones, and one that is not
ValueKeys == { <<"a","B">>, <<"i","d">>, <<"a","_","b">> }

\* the objects of at most n fields, in every order of insertion
ValuesUpTo(n) ==
    { Obj(pairs) : pairs \in
        { ps \in UNION { [1..k -> [key : ValueKeys, value : SetValues]] : k \in 0..n } :
            \A i, j \in 1..Len(ps) : i # j => ps[i].key # ps[j].key } }

\* what setEntry may be called with
SetEntryValues == ValuesUpTo(MaxList)

\* caller c sets an entry of the module it holds or of the other module
SetEntry(c, module, values) ==
    /\ module \in {held[c], 2}
    /\ LET opts == [module |-> module, values |-> values]
       IN  /\ given' = [op |-> "setEntry", options |-> opts]
           /\ sent' = [method |-> "set_entry", args |-> setEntryArgs(opts, token)]
    /\ UNCHANGED <<caseVars, moduleVars, flattenVars, deepVars, serviceVars>>

(***************************************************************************)
(* Session and calls (SuiteCrmService.getToken, call, clearToken).         *)
(*                                                                         *)
(* Operations are asynchronous and run on one thread: an operation runs    *)
(* without interruption until it awaits a reply of the endpoint, and       *)
(* resumes when the reply arrives; between the two, other operations and   *)
(* the callers may run.  A step of the model is one such run: the start of *)
(* an operation up to its first request, or the arrival of a reply up to   *)
(* the next request or the end of the operation.                           *)
(*                                                                         *)
(* Per task: pc is where it is suspended (rawLogin: the login sent by      *)
(* getEntryListRaw; callLogin: the login sent at the start of call;        *)
(* request: the first attempt; retryLogin: the login after an invalid      *)
(* session; retry: the second attempt), args the arguments given to call,  *)
(* callArgs the arguments of the request, events what the operation did    *)
(* and met, sessions the session of every request of the method it sent.   *)
(***************************************************************************)
Tasks == {1, 2}

NoTask == [ op |-> "none", pc |-> "idle", args |-> EmptyObject,
            callArgs |-> EmptyObject, events |-> <<>>, sessions |-> <<>> ]

ServiceIdle ==
    /\ token = 0 /\ userInfo = FALSE
    /\ tasks = [t \in Tasks |-> NoTask]
    /\ issued = 0 /\ fresh = FALSE /\ started = 0 /\ clears = 0

\* replies to login: a session id, a reply without id, a transport error
LoginOutcomes == {"ok", "noId", "transport"}

\* replies to a method: a result, the API error 'Invalid Session ID',
\* another API error, a transport error
MethodOutcomes == {"ok", "invalid", "apiError", "transport"}

\* { session: this.token, ...args }: a session among args wins
spreadCallArgs(tok, args) ==
    [k \in (DOMAIN args) \cup {"session"} |->
        IF k \in DOMAIN args THEN args[k] ELSE tok]

\* call, lines 199-216: what becomes of the reply to the first attempt
onResponse(outcome) ==
    IF outcome = "ok" THEN "return"
    ELSE IF outcome = "invalid" THEN "reauth"
    ELSE "throw"

\* a retry that handles its reply as the first attempt does
onRetryResponseAgain(outcome) == onResponse(outcome)

\* call, lines 222-230: what becomes of the reply to the retry
onRetryResponse(outcome) == IF outcome = "ok" THEN "return" ELSE "throw"

\* the request of the method goes out with callArgs
sendRequest(task, callArgs) ==
    [task EXCEPT !.callArgs = callArgs,
                 !.events = Append(@, "request"),
                 !.sessions = Append(@, callArgs.session)]

\* call(method, args) from its start to its first await, tok being this.token
call(task, args, tok) ==
    IF tok = 0
    THEN [task EXCEPT !.pc = "callLogin", !.args = args,
                      !.events = Append(@, "login")]
    ELSE [sendRequest(task, spreadCallArgs(tok, args)) EXCEPT
              !.pc = "request", !.args = args]

\* the options of the operations of this model
ListOptions ==
    [ module |-> Base, query |-> <<>>, orderBy |-> None, offset |-> None,
      selectedFields |-> None, linkNameToFieldsArray |-> None,
      maxResults |-> None, deleted |-> None ]

SetOptions ==
    [ module |-> Base,
      values |-> Obj(<< [key |-> <<"a","B">>, value |-> Leaf(1)] >>) ]

CanStart(t) == tasks[t].pc \in {"idle", "done"} /\ started < MaxOps

\* getEntryList: getEntryListRaw logs in first when there is no user info
\* (getToken returns the cached token without a request when there is one)
StartGetEntryList(t) ==
    /\ CanStart(t)
    /\ started' = started + 1
    /\ LET task == [NoTask EXCEPT !.op = "getEntryList"]
           entry == entryArgs(ListOptions)
       IN  tasks' = [tasks EXCEPT ![t] =
               IF ~userInfo /\ token = 0
               THEN [task EXCEPT !.pc = "rawLogin", !.args = entry,
                                 !.events = <<"preLogin">>]
               ELSE call(task, entry, token)]
    /\ UNCHANGED <<token, userInfo, issued, fresh, clears>>
    /\ UNCHANGED <<caseVars, moduleVars, flattenVars, requestVars, deepVars>>

\* setEntry: the arguments are built, this.token among them, and call is entered
StartSetEntry(t) ==
    /\ CanStart(t)
    /\ started' = started + 1
    /\ tasks' = [tasks EXCEPT ![t] =
           call([NoTask EXCEPT !.op = "setEntry"], setEntryArgs(SetOptions, token), token)]
    /\ UNCHANGED <<token, userInfo, issued, fresh, clears>>
    /\ UNCHANGED <<caseVars, moduleVars, flattenVars, requestVars, deepVars>>

\* the reply to a login arrives: getToken sets the token and the user info,
\* or clears both and throws; the operation goes on to its request
LoginResponds(t, outcome) ==
    /\ tasks[t].pc \in {"rawLogin", "callLogin", "retryLogin"}
    /\ IF outcome = "ok"
       THEN /\ issued' = issued + 1
            /\ token' = issued + 1
            /\ userInfo' = TRUE
            /\ fresh' = TRUE
            /\ tasks' = [tasks EXCEPT ![t] =
                   LET task == [tasks[t] EXCEPT !.events = Append(@, "loginOk")]
                   IN  IF task.pc = "rawLogin"
                       THEN call(task, task.args, token')
                       ELSE IF task.pc = "callLogin"
                       THEN [sendRequest(task, spreadCallArgs(token', task.args))
                                EXCEPT !.pc = "request"]
                       ELSE [sendRequest(task, [task.callArgs EXCEPT !.session = token'])
                                EXCEPT !.pc = "retry"]]
       ELSE /\ token' = 0
            /\ userInfo' = FALSE
            /\ fresh' = FALSE
            /\ issued' = issued
            /\ tasks' = [tasks EXCEPT ![t].pc = "done",
                                      ![t].events = @ \o <<"loginFailed", "threw">>]
    /\ UNCHANGED <<started, clears>>
    /\ UNCHANGED <<caseVars, moduleVars, flattenVars, requestVars, deepVars>>

\* the reply to a request of the method arrives
MethodResponds(t, outcome) ==
    /\ tasks[t].pc \in {"request", "retry"}
    /\ LET step == IF tasks[t].pc = "request" THEN onResponse(outcome)
                   ELSE onRetryResponse(outcome)
       IN  IF step = "reauth"
           THEN \* clearToken(); await this.getToken(): the login goes out
                /\ token' = 0
                /\ userInfo' = FALSE
                /\ fresh' = FALSE
                /\ tasks' = [tasks EXCEPT ![t].pc = "retryLogin",
                                          ![t].events = @ \o <<outcome, "clear", "login">>]
           ELSE /\ tasks' = [tasks EXCEPT ![t].pc = "done",
                                 ![t].events = @ \o <<outcome,
                                     IF step = "return" THEN "returned" ELSE "threw">>]
                /\ fresh' = (fresh /\ outcome # "invalid")
                /\ UNCHANGED <<token, userInfo>>
    /\ UNCHANGED <<issued, started, clears>>
    /\ UNCHANGED <<caseVars, moduleVars, flattenVars, requestVars, deepVars>>

\* a caller calls clearToken()
ClearToken ==
    /\ clears < MaxClears
    /\ clears' = clears + 1
    /\ token' = 0
    /\ userInfo' = FALSE
    /\ fresh' = FALSE
    /\ UNCHANGED <<tasks, issued, started>>
    /\ UNCHANGED <<caseVars, moduleVars, flattenVars, requestVars, deepVars>>

(***************************************************************************)
(* Specifications: one per component; the variables of the other           *)
(* components stay at their idle values.                                   *)
(***************************************************************************)
CaseInit == text \in CaseInputs /\ trail = <<>> /\ ModuleIdle /\ FlattenIdle /\ RequestIdle /\ DeepIdle /\ ServiceIdle

CaseNext ==
    \/ CallCamelToSnake
    \/ CallSnakeToCamel

SpecCase == CaseInit /\ [][CaseNext]_vars

ModuleInit == ModuleStart /\ CaseIdle /\ FlattenIdle /\ RequestIdle /\ DeepIdle /\ ServiceIdle

ModuleNext ==
    \/ \E c \in Callers, self \in 1..MaxModules, linkName \in LinkNames,
         relatedModule \in {1, 2} : WithLink(c, self, linkName, relatedModule)
    \/ \E c \in Callers, key \in {snakeToCamel(n) : n \in LinkNames},
         selectedFields \in FieldLists : Select(c, key, selectedFields)

SpecModule == ModuleInit /\ [][ModuleNext]_vars

FlattenInit == FlattenStart /\ CaseIdle /\ ModuleIdle /\ RequestIdle /\ DeepIdle /\ ServiceIdle

FlattenNext ==
    \/ \E nvl \in {None, Some(<<>>)} : AddEntry(nvl)
    \/ \E key \in OwnKeys : AddOwnField(key)
    \/ \E rel \in {None, Some([link_list |-> None]), Some([link_list |-> Some(<<>>)])} :
           AddRelationship(rel)
    \/ \E name \in RespLinks, records \in {Some(<<>>)} : AddLink(name, records)
    \/ \E linkValue \in {Some(<<>>)} : AddRecord(linkValue)
    \/ \E key \in LinkKeys : AddLinkField(key)
    \/ \E opts \in OptionsSet : GetEntryList(opts)

SpecFlatten == FlattenInit /\ [][FlattenNext]_vars

\* one caller chains withLink on the descriptor it holds, then asks for a
\* list or sets an entry; a run follows one request
RequestInit == ModuleStart /\ CaseIdle /\ FlattenIdle /\ RequestIdle /\ DeepIdle /\ ServiceIdle

RequestNext ==
    \/ /\ given = NoGiven
       /\ \E linkName \in LinkNames : WithLink(1, held[1], linkName, 2)
    \/ /\ given = NoGiven
       /\ \E paging \in Paging, orderBy \in OrderBys, selectedFields \in SelectedFieldLists,
            picks \in {None} \cup
                { Some(p) : p \in PicksUpTo(DOMAIN LinksOf(held[1]), MaxList) } :
              GetEntryListRaw(1, paging, orderBy, selectedFields, picks)
    \/ /\ given = NoGiven
       /\ \E module \in 1..MaxModules, values \in SetEntryValues :
              SetEntry(1, module, values)

SpecRequest == RequestInit /\ [][RequestNext]_vars

DeepInit ==
    /\ deepObj \in DeepInputs /\ converted = NoConversion
    /\ CaseIdle /\ ModuleIdle /\ FlattenIdle /\ RequestIdle /\ ServiceIdle

DeepNext ==
    \/ CallObjectToSnakeCase
    \/ CallObjectToCamelCase

SpecDeep == DeepInit /\ [][DeepNext]_vars

ServiceInit ==
    /\ ModuleStart /\ ServiceIdle
    /\ CaseIdle /\ FlattenIdle /\ RequestIdle /\ DeepIdle

ServiceNext ==
    \/ \E t \in Tasks : StartGetEntryList(t)
    \/ \E t \in Tasks : StartSetEntry(t)
    \/ \E t \in Tasks, outcome \in LoginOutcomes : LoginResponds(t, outcome)
    \/ \E t \in Tasks, outcome \in MethodOutcomes : MethodResponds(t, outcome)
    \/ ClearToken

SpecService == ServiceInit /\ [][ServiceNext]_vars

(***************************************************************************)
(* Claims about the case converter, checked under SpecCase.                *)
(***************************************************************************)
IsDigit(c) == c \in {"0","1","2","3","4","5","6","7","8","9"}

\* lowercase segments (lowercase letters and digits) joined by internal capitals
IsLowerCamel(str) ==
    /\ \A i \in 1..Len(str) : IsLower(str[i]) \/ IsDigit(str[i]) \/ IsUpper(str[i])
    /\ str # <<>> => ~IsUpper(str[1])

\* C10: converting a lower-camel-case name to snake_case and back yields the
\* name: snakeToCamel(camelToSnake(s)) = s.
C10_CamelRoundTrip ==
    \A i \in 1..(Len(trail) - 1) :
        ( /\ trail[i].fn = "camelToSnake"
          /\ trail[i+1].fn = "snakeToCamel"
          /\ trail[i+1].arg = trail[i].ret
          /\ IsLowerCamel(trail[i].arg) )
        => trail[i+1].ret = trail[i].arg

\* fitacFitacProy went to fitac_fitac_proy and came back
C10_Witness ==
    /\ Len(trail) = 2
    /\ trail[1] = [ fn |-> "camelToSnake",
                    arg |-> <<"f","i","t","a","c","F","i","t","a","c","P","r","o","y">>,
                    ret |-> <<"f","i","t","a","c","_","f","i","t","a","c","_","p","r","o","y">> ]
    /\ trail[2].fn = "snakeToCamel"
    /\ trail[2].arg = trail[1].ret
    /\ trail[2].ret = trail[1].arg

\* lowercase segments (lowercase letters and digits, at least one character
\* each) joined by single underscores
IsSnake(str) ==
    /\ str # <<>>
    /\ \A i \in 1..Len(str) : IsLower(str[i]) \/ IsDigit(str[i]) \/ str[i] = "_"
    /\ str[1] # "_" /\ str[Len(str)] # "_"
    /\ \A i \in 1..(Len(str) - 1) : ~(str[i] = "_" /\ str[i+1] = "_")

\* C11: converting a snake_case name (lowercase segments joined by single
\* underscores) to camelCase and back yields the name:
\* camelToSnake(snakeToCamel(s)) = s.
C11_SnakeRoundTrip ==
    \A i \in 1..(Len(trail) - 1) :
        ( /\ trail[i].fn = "snakeToCamel"
          /\ trail[i+1].fn = "camelToSnake"
          /\ trail[i+1].arg = trail[i].ret
          /\ IsSnake(trail[i].arg) )
        => trail[i+1].ret = trail[i].arg

\* fitac_fitac_proy went to fitacFitacProy and came back
C11_Witness ==
    /\ Len(trail) = 2
    /\ trail[1] = [ fn |-> "snakeToCamel",
                    arg |-> <<"f","i","t","a","c","_","f","i","t","a","c","_","p","r","o","y">>,
                    ret |-> <<"f","i","t","a","c","F","i","t","a","c","P","r","o","y">> ]
    /\ trail[2].fn = "camelToSnake"
    /\ trail[2].arg = trail[1].ret
    /\ trail[2].ret = trail[1].arg

(***************************************************************************)
(* Claims about the builder, checked under SpecModule.                     *)
(***************************************************************************)
\* C1: no step changes a descriptor that exists: every module keeps its name
\* and its links reference, the object it refers to keeps its keys and its
\* values, and the relationships it holds stay as they are.
C1_WithLinkNeverMutates ==
    [][ \A m \in 1..Len(modules) :
          /\ Len(modules') >= m
          /\ modules'[m] = modules[m]
          /\ linkObjs'[modules[m].links] = linkObjs[modules[m].links]
          /\ \A k \in DOMAIN LinksOf(m) :
                rels'[LinksOf(m)[k]] = rels[LinksOf(m)[k]] ]_vars

\* both callers derived a descriptor of their own from the shared base (the
\* second from the base, after the first), and the base has no link
C1_Witness ==
    /\ last.op = "withLink"
    /\ last.self = Base
    /\ held[1] # Base /\ held[2] # Base /\ held[1] # held[2]
    /\ DOMAIN LinksOf(held[1]) # {} /\ DOMAIN LinksOf(held[2]) # {}
    /\ DOMAIN LinksOf(Base) = {}

\* C2: the descriptor withLink returns is a new one, with the name of the
\* receiver and a links object of its own, which holds the receiver's entries
\* and, under snakeToCamel(linkName), a new relationship of the link name as
\* given and the target passed.
C2_WithLinkAddsEntry ==
    last.op = "withLink" =>
        LET new == LinksOf(last.ret)
            camelKey == snakeToCamel(last.linkName)
        IN  /\ last.ret # last.self
            /\ \A m \in 1..Len(modules) :
                   m # last.ret => modules[m].links # modules[last.ret].links
            /\ modules[last.ret].name = modules[last.self].name
            /\ DOMAIN new = (DOMAIN last.before) \cup {camelKey}
            /\ rels[new[camelKey]] = [ linkName |-> last.linkName,
                                       relatedModule |-> last.relatedModule ]
            /\ \A k \in DOMAIN last.before : new[camelKey] # last.before[k]
            /\ \A k \in (DOMAIN last.before) \ {camelKey} : new[k] = last.before[k]
            /\ camelKey \notin DOMAIN last.before =>
                   Cardinality(DOMAIN new) = Cardinality(DOMAIN last.before) + 1

\* a_b was linked to a descriptor that already had the link a_1
C2_Witness ==
    /\ last.op = "withLink"
    /\ last.linkName = <<"a","_","b">>
    /\ DOMAIN last.before = { <<"a","_","1">> }
    /\ DOMAIN LinksOf(last.ret) = { <<"a","_","1">>, <<"a","B">> }

\* C3: a withLink whose normalized key is already a key of links raises a
\* configuration error.
C3_CollisionRaises ==
    ( /\ last.op = "withLink"
      /\ snakeToCamel(last.linkName) \in DOMAIN last.before
      /\ rels[last.before[snakeToCamel(last.linkName)]].linkName # last.linkName )
    => last.threw

\* C9: the runtime keys are the keys of the types: links is keyed by
\* SnakeToCamelCase<L>, and a selected field f of link L is flattened to the
\* key SnakeToCamelCase<L> followed by Capitalize<f>.
C9_RuntimeKeysAreTypeKeys ==
    /\ \A m \in 1..Len(modules) : \A k \in DOMAIN LinksOf(m) :
           k = LinksTypeKey(rels[LinksOf(m)[k]].linkName)
    /\ last.op = "select" =>
           \A j \in 1..Len(last.query.selectedFields) :
               flattenedKey(last.query.linkName,
                            camelToSnake(last.query.selectedFields[j]))
                 = FlattenedRelationshipKey(last.query.linkName,
                                            last.query.selectedFields[j])

(***************************************************************************)
(* Claims about the flattening, checked under SpecFlatten.                 *)
(*                                                                         *)
(* The claims are stated on the response itself: Sources(i) are the pairs  *)
(* of the response that belong to primary record i, each with its place in *)
(* the response (0,0,j for the j-th own pair; g,r,j for the j-th pair of   *)
(* the r-th record of the g-th link) and the key it normalizes to.         *)
(***************************************************************************)
EntryList == OrEmpty(rawResponse.entry_list)
RelationshipList == OrEmpty(rawResponse.relationship_list)

OwnPairs(i) == OrEmpty(EntryList[i].name_value_list)

HasRelationship(i) == i <= Len(RelationshipList) /\ RelationshipList[i] # None

LinksAt(i) == IF HasRelationship(i) THEN OrEmpty(RelationshipList[i][1].link_list) ELSE <<>>

OwnSources(i) ==
    { [ place |-> <<0, 0, j>>, key |-> snakeToCamel(OwnPairs(i)[j].key),
        value |-> OwnPairs(i)[j].value ] : j \in 1..Len(OwnPairs(i)) }

RelSources(i) ==
    UNION { UNION { { [ place |-> <<g, r, j>>,
                        key |-> snakeToCamel(LinksAt(i)[g].name \o <<"_">>
                                   \o OrEmpty(OrEmpty(LinksAt(i)[g].records)[r].link_value)[j].key),
                        value |-> OrEmpty(OrEmpty(LinksAt(i)[g].records)[r].link_value)[j].value ] :
                      j \in 1..Len(OrEmpty(OrEmpty(LinksAt(i)[g].records)[r].link_value)) } :
                    r \in 1..Len(OrEmpty(LinksAt(i)[g].records)) } :
            g \in 1..Len(LinksAt(i)) }

Sources(i) == OwnSources(i) \cup RelSources(i)

\* s comes after t in the response
Later(s, t) ==
    \/ s.place[1] > t.place[1]
    \/ s.place[1] = t.place[1] /\ s.place[2] > t.place[2]
    \/ s.place[1] = t.place[1] /\ s.place[2] = t.place[2] /\ s.place[3] > t.place[3]

Overwritten(i, s) == \E t \in Sources(i) : t.key = s.key /\ Later(t, s)

\* C4 as stated: one record per primary record, in order, and every own pair
\* (remoteKey, value) of record i is found as output[i][toInternal(remoteKey)].
C4_EveryOwnPairHeld ==
    phase = "done" =>
        /\ Len(parsedEntries) = Len(EntryList)
        /\ \A i \in 1..Len(EntryList) : \A s \in OwnSources(i) :
               /\ s.key \in DOMAIN parsedEntries[i]
               /\ parsedEntries[i][s.key] = s.value

\* C4 as amended: one record per primary record, in order; every own pair's
\* normalized key is a key of output[i], and holds the pair's value unless a
\* later own pair or a relationship field of index i normalizes to the same key.
C4_OwnPairHeldUnlessOverwritten ==
    phase = "done" =>
        /\ Len(parsedEntries) = Len(EntryList)
        /\ \A i \in 1..Len(EntryList) : \A s \in OwnSources(i) :
               /\ s.key \in DOMAIN parsedEntries[i]
               /\ ~Overwritten(i, s) => parsedEntries[i][s.key] = s.value

\* two primary records, the first with c_b and the second with cB, each
\* flattened to its own record under cB
C4_Witness ==
    /\ phase = "done"
    /\ Len(EntryList) = 2
    /\ KeysOf(OwnPairs(1)) = { <<"c","_","b">> }
    /\ KeysOf(OwnPairs(2)) = { <<"c","B">> }
    /\ parsedEntries[1] = [k \in { <<"c","B">> } |-> OwnPairs(1)[1].value]
    /\ parsedEntries[2] = [k \in { <<"c","B">> } |-> OwnPairs(2)[1].value]
    /\ parsedEntries[1] # parsedEntries[2]

\* C5: for a primary record i with a relationship element at index i, every
\* pair of every sub-record of every link L is assigned to output[i] under
\* toInternal(L_field), which is then a key of output[i]; and in no other
\* record: no assignment to, and no value of, output[j] (j # i) is that pair's.
C5_RelationshipFieldsStoredAtIndex ==
    phase = "done" =>
        \A i \in 1..Len(EntryList) : \A s \in RelSources(i) :
            /\ \E n \in 1..Len(writes[i]) :
                   writes[i][n] = [key |-> s.key, value |-> s.value]
            /\ s.key \in DOMAIN parsedEntries[i]
            /\ \A j \in (1..Len(EntryList)) \ {i} :
                   /\ \A n \in 1..Len(writes[j]) : writes[j][n].value # s.value
                   /\ \A k \in DOMAIN parsedEntries[j] : parsedEntries[j][k] # s.value

\* two primary records and relationship data for the first only: field a_b of
\* link c is in the first record, under cAB, and not in the second
C5_Witness ==
    /\ phase = "done"
    /\ Len(EntryList) = 2
    /\ HasRelationship(1)
    /\ \E s \in RelSources(1) :
           /\ s.key = <<"c","A","B">>
           /\ parsedEntries[1][<<"c","A","B">>] = s.value
    /\ <<"c","A","B">> \notin DOMAIN parsedEntries[2]

\* C6: of the pairs of record i that normalize to one key, the one that comes
\* last in the response (own pairs first, then links, sub-records and fields
\* in their order) gives output[i] its value.
C6_LastWriteWins ==
    phase = "done" =>
        \A i \in 1..Len(EntryList) :
            /\ DOMAIN parsedEntries[i] = { s.key : s \in Sources(i) }
            /\ \A s \in Sources(i) :
                   ~Overwritten(i, s) => parsedEntries[i][s.key] = s.value

\* two sub-records of link c, both with field b: the second one's value is held
C6_Witness ==
    /\ phase = "done"
    /\ Len(EntryList) = 1
    /\ \E s, t \in RelSources(1) :
           /\ s.place[1] = 1 /\ t.place[1] = 1
           /\ s.place[2] = 1 /\ t.place[2] = 2
           /\ s.key = <<"c","B">> /\ t.key = <<"c","B">>
           /\ s.value # t.value
           /\ parsedEntries[1][<<"c","B">>] = t.value

\* C7: a primary record without a relationship element (no list, a shorter
\* list, a null element) gets a record of exactly its own fields, and there
\* is a record for every primary record.
C7_OwnFieldsOnlyWithoutRelationship ==
    phase = "done" =>
        /\ Len(parsedEntries) = Len(EntryList)
        /\ \A i \in 1..Len(EntryList) :
               ~HasRelationship(i) =>
                   /\ DOMAIN parsedEntries[i] = { s.key : s \in OwnSources(i) }
                   /\ \A k \in DOMAIN parsedEntries[i] :
                          \E s \in OwnSources(i) :
                              s.key = k /\ s.value = parsedEntries[i][k]

\* two primary records, a relationship list of one element with a field: the
\* second record has its own field only
C7_Witness ==
    /\ phase = "done"
    /\ Len(EntryList) = 2
    /\ Len(RelationshipList) = 1
    /\ RelSources(1) # {}
    /\ OwnSources(2) # {}
    /\ DOMAIN parsedEntries[2] = { s.key : s \in OwnSources(2) }
    /\ DOMAIN parsedEntries[1] # {}

\* C8: the records returned are those any other selection would have given
\* for the same response, and every pair of the response, own or of a
\* relationship, is in its record under its normalized key, whatever was
\* selected (an empty selection included).
C8_SelectionAgnostic ==
    phase = "done" =>
        /\ \A opts \in OptionsSet : getEntryList(opts, rawResponse) = parsedEntries
        /\ \A i \in 1..Len(EntryList) : \A s \in Sources(i) :
               s.key \in DOMAIN parsedEntries[i]

\* called with no selection at all, on a response with an own field and a
\* relationship field: both are returned
C8_Witness ==
    /\ phase = "done"
    /\ options = NoOptions
    /\ Len(EntryList) = 1
    /\ OwnSources(1) # {} /\ RelSources(1) # {}
    /\ DOMAIN parsedEntries[1] = { <<"c","B">>, <<"c","A","B">> }

(***************************************************************************)
(* Claims about the requests, checked under SpecRequest.                   *)
(***************************************************************************)
NoCapital(str) == \A i \in 1..Len(str) : ~IsUpper(str[i])

\* C12: the get_entry_list arguments carry external names: order_by is
\* camelToSnake(orderBy) (empty when there is none), select_fields is
\* selectedFields converted element by element in the same order, every link
\* entry has the name its relationship was given in withLink, not the key of
\* links, with its selected fields converted element by element; the query
\* and the module name are the caller's.
C12_RequestNamesExternal ==
    given.op = "getEntryList" =>
        LET o == given.options
            a == sent.args
            selectedFields == OrEmpty(o.selectedFields)
        IN  /\ sent.method = "get_entry_list"
            /\ a.module_name = "Fitac_fitac"
            /\ a.query = o.query
            /\ a.order_by = camelToSnake(OrEmpty(o.orderBy))
            /\ NoCapital(a.order_by)
            /\ Len(a.select_fields) = Len(selectedFields)
            /\ \A j \in 1..Len(selectedFields) :
                   /\ a.select_fields[j] = camelToSnake(selectedFields[j])
                   /\ NoCapital(a.select_fields[j])
            /\ Len(a.link_name_to_fields_array) = Len(given.relationships)
            /\ \A q \in 1..Len(given.relationships) :
                   LET item == a.link_name_to_fields_array[q]
                   IN  /\ item.name = rels[given.relationships[q]].linkName
                       /\ Len(item.value) = Len(FieldsOfPick(q))
                       /\ \A j \in 1..Len(FieldsOfPick(q)) :
                              /\ item.value[j] = camelToSnake(FieldsOfPick(q)[j])
                              /\ NoCapital(item.value[j])

\* links a_b and a_1 were asked for, in that order, with fields, an order and
\* a filter: the request names a_b and a_1, the fields a_b and id
C12_Witness ==
    /\ given.op = "getEntryList"
    /\ sent.args.query = <<"a","B","_","c","=","1">>
    /\ sent.args.order_by = <<"a","_","b","_","c">>
    /\ sent.args.select_fields = << <<"a","_","b">>, <<"i","d">> >>
    /\ sent.args.link_name_to_fields_array =
           << [name |-> <<"a","_","b">>, value |-> << <<"i","d">>, <<"a","_","b">> >>],
              [name |-> <<"a","_","1">>, value |-> << <<"a","_","b">> >>] >>

IsCamelKey(key) == \A i \in 1..Len(key) : key[i] # "_"

GivenValues == given.options.values.kids

\* the NameValue sent under camelToSnake(key)
SentUnder(key) ==
    LET nvl == sent.args.name_value_list
    IN  nvl[CHOOSE j \in 1..Len(nvl) : nvl[j].key = camelToSnake(key)].value

SetEntryFrame ==
    /\ sent.method = "set_entry"
    /\ sent.args.module_name = modules[given.options.module].name
    /\ Len(sent.args.name_value_list) = Len(GivenValues)
    /\ \A j \in 1..Len(GivenValues) :
           /\ sent.args.name_value_list[j].key = camelToSnake(GivenValues[j].key)
           /\ SentUnder(GivenValues[j].key).name = camelToSnake(GivenValues[j].key)

\* C13 as stated: for values keyed in camelCase, set_entry is sent with the
\* descriptor's module name and a name_value_list of exactly one entry per
\* (key, value), keyed camelToSnake(key) and equal to
\* {name: camelToSnake(key), value: value}.
C13_EntriesHoldCallerValues ==
    ( /\ given.op = "setEntry"
      /\ \A j \in 1..Len(GivenValues) : IsCamelKey(GivenValues[j].key) )
    => /\ SetEntryFrame
       /\ \A j \in 1..Len(GivenValues) :
              SentUnder(GivenValues[j].key).value = GivenValues[j].value

\* C13 as amended: the entry's value is the caller's when that is not a plain
\* record or a list; a plain record is sent as a plain record of its keys
\* converted, a list as a list of the same length whose elements that are
\* not objects are the caller's.
C13_EntriesHoldConvertedValues ==
    ( /\ given.op = "setEntry"
      /\ \A j \in 1..Len(GivenValues) : IsCamelKey(GivenValues[j].key) )
    => /\ SetEntryFrame
       /\ \A j \in 1..Len(GivenValues) :
              LET value == GivenValues[j].value
                  out == SentUnder(GivenValues[j].key).value
              IN  /\ value.t \notin {"obj", "arr"} => out = value
                  /\ value.t = "obj" =>
                         /\ out.t = "obj"
                         /\ KeysOf(out.kids) =
                                { camelToSnake(value.kids[k].key) : k \in 1..Len(value.kids) }
                  /\ value.t = "arr" =>
                         /\ out.t = "arr"
                         /\ Len(out.kids) = Len(value.kids)
                         /\ \A k \in 1..Len(value.kids) :
                                ~IsObjectType(value.kids[k]) => out.kids[k] = value.kids[k]

\* { aB: 1, id: { cD: 3 } } was set on the second module
C13_Witness ==
    /\ given.op = "setEntry"
    /\ given.options.values =
           Obj(<< [key |-> <<"a","B">>, value |-> Leaf(1)],
                  [key |-> <<"i","d">>,
                   value |-> Obj(<< [key |-> <<"c","D">>, value |-> Leaf(3)] >>)] >>)
    /\ sent.args.module_name = "proy_Proyectos"
    /\ sent.args.name_value_list =
           << [key |-> <<"a","_","b">>,
               value |-> [name |-> <<"a","_","b">>, value |-> Leaf(1)]],
              [key |-> <<"i","d">>,
               value |-> [name |-> <<"i","d">>,
                          value |-> Obj(<< [key |-> <<"c","_","d">>, value |-> Leaf(3)] >>)]] >>

(***************************************************************************)
(* Claims about the deep converters, checked under SpecDeep.               *)
(***************************************************************************)
KeyOf(fn, key) == IF fn = "objectToSnakeCase" THEN camelToSnake(key) ELSE snakeToCamel(key)

\* out is the deep conversion of in: a plain record becomes the plain record
\* of its keys converted and its values converted, a list the list of its
\* elements converted, anything else is itself; a list inside a list may be
\* converted as a list or left as it is
RECURSIVE ConvertedAs(_, _, _), ElementAs(_, _, _)

ConvertedAs(fn, in, out) ==
    IF in.t = "obj"
    THEN /\ out.t = "obj"
         /\ Len(out.kids) = Len(in.kids)
         /\ \A j \in 1..Len(in.kids) :
                /\ out.kids[j].key = KeyOf(fn, in.kids[j].key)
                /\ ConvertedAs(fn, in.kids[j].value, out.kids[j].value)
    ELSE IF in.t = "arr"
    THEN /\ out.t = "arr"
         /\ Len(out.kids) = Len(in.kids)
         /\ \A i \in 1..Len(in.kids) : ElementAs(fn, in.kids[i], out.kids[i])
    ELSE out = in

ElementAs(fn, in, out) ==
    IF in.t = "arr" THEN out = in \/ ConvertedAs(fn, in, out)
    ELSE ConvertedAs(fn, in, out)

\* C14: a deep converter converts the keys of the plain records at every
\* level, maps lists element by element, and returns every other value as it
\* is, without descending into it, also where it is an element of a list (an
\* object that is not plain, a list inside a list).
C14_DeepConvertersLeaveLeaves ==
    converted.fn # "none" => ConvertedAs(converted.fn, deepObj, converted.ret)

(***************************************************************************)
(* Claims about the session and the calls, checked under SpecService.      *)
(***************************************************************************)
EventsOf(t) == tasks[t].events

RequestsOf(t) == { k \in 1..Len(EventsOf(t)) : EventsOf(t)[k] = "request" }

LoginsOf(t) == { k \in 1..Len(EventsOf(t)) : EventsOf(t)[k] \in {"preLogin", "login"} }

\* C15: an operation sends the method at most twice and logs in at most
\* twice; a second request follows an 'Invalid Session ID' reply to the
\* first, the clearing of the token and a login that succeeded, in that
\* order; after a transport error, another API error, a failed login, or any
\* failure of the retry, the operation throws without a further request.
C15_SingleRetry ==
    \A t \in Tasks :
        LET E == EventsOf(t)
        IN  /\ Cardinality(RequestsOf(t)) <= 2
            /\ Cardinality(LoginsOf(t)) <= 2
            /\ \A k \in RequestsOf(t) :
                   (\E j \in RequestsOf(t) : j < k) =>
                       /\ k >= 6
                       /\ E[k-5] = "request" /\ E[k-4] = "invalid" /\ E[k-3] = "clear"
                       /\ E[k-2] = "login" /\ E[k-1] = "loginOk"
            /\ \A k \in 1..Len(E) :
                   ( \/ E[k] \in {"apiError", "transport", "loginFailed"}
                     \/ E[k] = "invalid" /\ (\E j \in RequestsOf(t) : j < k - 1) )
                   => k + 1 = Len(E) /\ E[k+1] = "threw"

\* an operation met an invalid session, logged in again and its retry, sent
\* with the new token, returned
C15_Witness ==
    \E t \in Tasks :
        /\ tasks[t].pc = "done"
        /\ Len(tasks[t].sessions) = 2
        /\ tasks[t].sessions[1] # tasks[t].sessions[2]
        /\ tasks[t].sessions[2] = token
        /\ EventsOf(t)[Len(EventsOf(t))] = "returned"

\* C16: the cached token is set only by a login that succeeded, with no
\* 'Invalid Session ID' reply (to a request or to its retry), no failed login
\* and no clearToken since; and while the token is empty so is the user info.
C16_TokenLifecycle ==
    /\ token # 0 => fresh
    /\ token # 0 => token \in 1..issued
    /\ token = 0 => ~userInfo

\* C17: every request of get_entry_list or set_entry, first attempt or
\* retry, carries a token that a login of this instance obtained.
C17_RequestsCarryToken ==
    \A t \in Tasks : \A i \in 1..Len(tasks[t].sessions) :
        tasks[t].sessions[i] \in 1..issued

====
